---- MODULE Spec2Model ----
(***************************************************************************)
(* PRR-Agent backend (backend/app.py): the upload / analyze-system /       *)
(* analyze-destructive-tests / generate-prr / download-prr pipeline over   *)
(* three in-memory dictionaries, and the SREAgent that produces the        *)
(* payloads.                                                               *)
(*                                                                         *)
(* Python values that reach a store or a response are JSON values.  A JSON *)
(* value is a record [t, s, arr, obj]: t is its Python type ("dict",       *)
(* "list", "str", "int", "NoneType"), s the text of a str or int, arr the  *)
(* elements of a list, obj the (key, value) entries of a dict in insertion *)
(* order.  Text that the code scans (the model reply, metadata_json) is a  *)
(* sequence of fragments whose concatenation is the text.                  *)
(***************************************************************************)
EXTENDS Naturals, Sequences, FiniteSets, TLC

VARIABLES
    processing_files,   \* app.py:45  fileId -> uploaded file
    analysis_results,   \* app.py:43  analysisId -> analysis record
    prr_documents,      \* app.py:44  documentId -> PRR record
    uuid_count,         \* number of uuid4() tokens handed out so far
    environ,            \* the process environment read by os.getenv
    call,               \* the generate_content call the event loop is blocked in
    last,               \* the request handled last and what the client got
    analysis_text,      \* reply text under extraction (extraction specifications)
    json_text,          \* text handed to json.loads
    structured,         \* what the extraction step returned
    returns             \* the generator calls made, with what they returned

vars == <<processing_files, analysis_results, prr_documents, uuid_count,
          environ, call, last, analysis_text, json_text, structured, returns>>

stores == <<processing_files, analysis_results, prr_documents>>

(***************************************************************************)
(* Bounds                                                                  *)
(***************************************************************************)
MaxTokens == 3      \* uuid4() tokens handed out in a run
MaxReplyLen == 6    \* fragments of a reply made of fences, newlines and braces
MaxTextLen == 5     \* fragments of a reply made of the heading, colons and words
MaxLines == 11      \* lines below the heading in a reply listing components
MaxCalls == 2       \* generator calls made in a run of the generators

(***************************************************************************)
(* JSON values and the Python operations the code applies to them          *)
(***************************************************************************)
Str(s) == [t |-> "str", s |-> s, arr |-> <<>>, obj |-> <<>>]
Number(s) == [t |-> "int", s |-> s, arr |-> <<>>, obj |-> <<>>]
None == [t |-> "NoneType", s |-> "", arr |-> <<>>, obj |-> <<>>]
List(a) == [t |-> "list", s |-> "", arr |-> a, obj |-> <<>>]
Dict(e) == [t |-> "dict", s |-> "", arr |-> <<>>, obj |-> e]
KV(k, v) == [key |-> k, val |-> v]

HasKey(d, k) == \E i \in DOMAIN d.obj : d.obj[i].key = k
Item(d, k) == d.obj[CHOOSE i \in DOMAIN d.obj : d.obj[i].key = k].val

\* A Python evaluation either yields a value or raises.
Ok(v) == [exc |-> "", val |-> v]
Raise(e) == [exc |-> e, val |-> None]

(***************************************************************************)
(* Fixed payloads                                                          *)
(***************************************************************************)
Component(n, ty, d, tech) ==
    Dict(<<KV("name", Str(n)), KV("type", Str(ty)), KV("description", Str(d)),
           KV("technologies", List(tech))>>)

Dependency(src, tgt, ty) ==
    Dict(<<KV("source", Str(src)), KV("target", Str(tgt)), KV("type", Str(ty))>>)

_create_mock_system_analysis ==
    Dict(<<
      KV("components", List(<<
        Component("Frontend Web App", "ui", "React-based user interface",
                  <<Str("React"), Str("Material UI")>>),
        Component("API Gateway", "api", "RESTful API gateway",
                  <<Str("Express.js"), Str("Node.js")>>),
        Component("Authentication Service", "service",
                  "User authentication and authorization",
                  <<Str("OAuth 2.0"), Str("JWT")>>),
        Component("Product Service", "service", "Core product management",
                  <<Str("Java"), Str("Spring Boot")>>),
        Component("Inventory Service", "service",
                  "Inventory tracking and management",
                  <<Str("Java"), Str("Spring Boot")>>),
        Component("User Database", "database", "User data storage",
                  <<Str("PostgreSQL")>>),
        Component("Product Database", "database", "Product catalog storage",
                  <<Str("MongoDB")>>),
        Component("CDN", "external", "Content delivery network",
                  <<Str("Cloudflare")>>) >>)),
      KV("dependencies", List(<<
        Dependency("Frontend Web App", "API Gateway", "REST"),
        Dependency("API Gateway", "Authentication Service", "REST"),
        Dependency("API Gateway", "Product Service", "REST"),
        Dependency("API Gateway", "Inventory Service", "REST"),
        Dependency("Authentication Service", "User Database", "Database"),
        Dependency("Product Service", "Product Database", "Database"),
        Dependency("Inventory Service", "Product Database", "Database"),
        Dependency("Frontend Web App", "CDN", "External") >>)),
      KV("criticalPaths", List(<<
        List(<<Str("Frontend Web App"), Str("API Gateway"),
               Str("Authentication Service"), Str("User Database")>>),
        List(<<Str("Frontend Web App"), Str("API Gateway"),
               Str("Product Service"), Str("Product Database")>>) >>)),
      KV("singlePointsOfFailure", List(<<
        Dict(<<KV("name", Str("API Gateway")),
               KV("impact", Str("All services become inaccessible"))>>),
        Dict(<<KV("name", Str("Product Database")),
               KV("impact", Str("Product and inventory data unavailable"))>>) >>)),
      KV("recommendations", List(<<
        Str("Implement API Gateway redundancy across multiple availability zones"),
        Str("Set up database replication for Product Database"),
        Str("Add circuit breakers between API Gateway and backend services"),
        Str("Implement frontend caching strategy for product data") >>)),
      KV("availabilityTier", Str("tier2")),
      KV("tierJustification",
         Str("The system has indirect revenue impact with customer-facing components."))
    >>)

Named(n, d) == Dict(<<KV("name", Str(n)), KV("description", Str(d))>>)

Experiment(n, d, comps, expected) ==
    Dict(<<KV("name", Str(n)), KV("description", Str(d)),
           KV("components", List(comps)), KV("expectedResult", Str(expected))>>)

\* The long free-text fields of the plan (impact, metric, litmusConfig, the
\* blast-radius lists) are constants no code path reads; each item keeps the
\* fields that identify it.
_create_mock_chaos_testing_plan ==
    Dict(<<
      KV("dependencyAnalysis", Dict(<<
        KV("summary", Str("The system has several critical dependencies that warrant chaos testing")),
        KV("dependencies", List(<<
          Named("API Gateway Dependency",
                "All services are accessed through the API Gateway, making it a critical SPOF"),
          Named("Product Database Dependency",
                "Both Product and Inventory services rely on the same database"),
          Named("Authentication Service Dependency",
                "Required for user authentication across all protected endpoints"),
          Named("External CDN Dependency",
                "Frontend static assets delivery depends on external CDN") >>)) >>)),
      KV("steadyStateDefinitions", Dict(<<
        KV("summary", Str("The following steady states define normal system operation for validating chaos experiments")),
        KV("states", List(<<
          Named("API Gateway Response Time",
                "API Gateway responds to health checks within 300ms"),
          Named("Authentication Service Availability",
                "Authentication service correctly validates tokens"),
          Named("Product Service Functionality",
                "Product service returns valid product data"),
          Named("Database Query Performance",
                "Database queries complete within acceptable timeframe"),
          Named("End-to-End Transaction",
                "Complete product search to checkout flow succeeds") >>)) >>)),
      KV("hypotheses", Dict(<<
        KV("summary", Str("Test hypotheses for chaos testing scenarios")),
        KV("items", List(<<
          Dict(<<KV("testApproach", Str("Inject latency at the API Gateway level and observe frontend behavior"))>>),
          Dict(<<KV("testApproach", Str("Terminate Product Database connections and validate Product Service response"))>>),
          Dict(<<KV("testApproach", Str("Generate high CPU load on Authentication Service while monitoring active sessions"))>>),
          Dict(<<KV("testApproach", Str("Introduce packet loss between services and monitor recovery behavior"))>>) >>)) >>)),
      KV("experiments", Dict(<<
        KV("summary", Str("Prioritized chaos experiments to validate system resilience")),
        KV("items", List(<<
          Experiment("API Gateway Latency Injection",
                     "Inject 1000ms latency to API Gateway responses",
                     <<Str("API Gateway")>>,
                     "Frontend shows loading states and retries failed requests"),
          Experiment("Product Database Termination",
                     "Terminate Product Database pod for 30 seconds",
                     <<Str("Product Database")>>,
                     "Product Service serves cached data and automatically reconnects"),
          Experiment("Authentication Service CPU Stress",
                     "Stress CPU on Authentication Service to 80% for 2 minutes",
                     <<Str("Authentication Service")>>,
                     "Active sessions remain valid with potential latency increase"),
          Experiment("Network Partition Test",
                     "Introduce network partition between frontend and backend services",
                     <<Str("Frontend Web App"), Str("API Gateway")>>,
                     "Frontend shows appropriate error messages and retry options") >>)) >>)),
      KV("rumsfeld", Dict(<<
        KV("summary", Str("Rumsfeld Matrix analysis for known and unknown failure scenarios")),
        KV("matrix", Dict(<<
          KV("knownKnowns", List(<<Str("API Gateway is a single point of failure")>>)),
          KV("knownUnknowns", List(<<Str("Behavior under sustained high load over multiple hours")>>)),
          KV("unknownUnknowns", List(<<Str("Emergent properties under extreme conditions")>>)) >>)),
        KV("recommendations", List(<<
          Str("Implement canary deployments to detect potential failures early") >>)) >>)),
      KV("blastRadius", Dict(<<
        KV("summary", Str("Analysis of the impact scope for each test case")),
        KV("analyses", List(<<
          Dict(<<KV("test", Str("API Gateway Latency Injection"))>>),
          Dict(<<KV("test", Str("Product Database Termination"))>>),
          Dict(<<KV("test", Str("Authentication Service CPU Stress"))>>),
          Dict(<<KV("test", Str("Network Partition Test"))>>) >>)) >>))
    >>)

\* datetime.now().strftime("%Y-%m-%d") on day d of the run.
strftime(d) == "2025-06-0" \o ToString(d + 1)

Section(title, content) ==
    Dict(<<KV("title", Str(title)), KV("content", Str(content))>>)

\* _create_mock_prr_document quoting metadata.description in its first section
_create_mock_prr_document_describing(metadata, day) ==
    Dict(<<
      KV("title", Str(metadata.name \o " - Production Readiness Review")),
      KV("version", Str("1.0")),
      KV("date", Str(strftime(day))),
      KV("sections", List(<<
        Section("Service Overview",
                metadata.name \o " (" \o metadata.description \o ") is a "
                  \o metadata.businessImpact
                  \o " impact service that provides product and inventory management capabilities."),
        Section("Architecture Analysis",
                "The system consists of the following key components:"),
        Section("Resilience Testing Strategy",
                "A comprehensive destructive testing plan has been developed to validate system resilience."),
        Section("Availability Design",
                "The system has been classified as Tier 2 (High) with a target availability of 99.9%"),
        Section("Observability Strategy",
                "The following observability implementation is recommended:"),
        Section("Identified Risks & Mitigations",
                "Key risks identified through system analysis and destructive testing:"),
        Section("Recommendations & Next Steps",
                "Based on the complete analysis, the following recommendations are prioritized:") >>))
    >>)

\* The section bodies after the first are constant text; only the first is
\* templated with the metadata.
_create_mock_prr_document(metadata, day) ==
    Dict(<<
      KV("title", Str(metadata.name \o " - Production Readiness Review")),
      KV("version", Str("1.0")),
      KV("date", Str(strftime(day))),
      KV("sections", List(<<
        Section("Service Overview",
                metadata.name \o " is a " \o metadata.businessImpact
                  \o " impact service that provides product and inventory management capabilities."),
        Section("Architecture Analysis",
                "The system consists of the following key components:"),
        Section("Resilience Testing Strategy",
                "A comprehensive destructive testing plan has been developed to validate system resilience."),
        Section("Availability Design",
                "The system has been classified as Tier 2 (High) with a target availability of 99.9%"),
        Section("Observability Strategy",
                "The following observability implementation is recommended:"),
        Section("Identified Risks & Mitigations",
                "Key risks identified through system analysis and destructive testing:"),
        Section("Recommendations & Next Steps",
                "Based on the complete analysis, the following recommendations are prioritized:") >>))
    >>)

(***************************************************************************)
(* Text: a sequence of fragments.  Whitespace and fence fragments are      *)
(* single fragments, so str methods act fragment-wise.                     *)
(***************************************************************************)
NL == "\n"
\* The fence fragment stands for three backquote characters.
FENCE == "[fence]"
FENCE_JSON == "[fence]json"
Whitespace == {NL, " "}

RECURSIVE lstrip(_)
lstrip(text) ==
    IF text # <<>> /\ Head(text) \in Whitespace THEN lstrip(Tail(text)) ELSE text

RECURSIVE rstrip(_)
rstrip(text) ==
    IF text # <<>> /\ text[Len(text)] \in Whitespace
    THEN rstrip(SubSeq(text, 1, Len(text) - 1))
    ELSE text

\* str.strip()
strip(text) == rstrip(lstrip(text))

\* "".join(fragments): the str a fragment sequence stands for
RECURSIVE join(_)
join(text) == IF text = <<>> THEN "" ELSE Head(text) \o join(Tail(text))

\* len(str) of a fragment: a fence is three characters long
fraglen(f) ==
    IF f = FENCE THEN 3
    ELSE IF f = FENCE_JSON THEN 7
    ELSE Len(f)

\* len(str) of a fragment sequence
RECURSIVE strlen(_)
strlen(text) == IF text = <<>> THEN 0 ELSE fraglen(Head(text)) + strlen(Tail(text))

\* index of the first occurrence of fragment f at or after position i, 0 if none
RECURSIVE find(_, _, _)
find(text, f, i) ==
    IF i > Len(text) THEN 0
    ELSE IF text[i] = f THEN i
    ELSE find(text, f, i + 1)

\* str.split(sep): the pieces between occurrences of the fragment sep
RECURSIVE split(_, _)
split(text, sep) ==
    LET i == find(text, sep, 1) IN
    IF i = 0 THEN <<text>>
    ELSE <<SubSeq(text, 1, i - 1)>> \o split(SubSeq(text, i + 1, Len(text)), sep)

\* str.split(sep, 1)
split1(text, sep) ==
    LET i == find(text, sep, 1) IN
    IF i = 0 THEN <<text>>
    ELSE <<SubSeq(text, 1, i - 1), SubSeq(text, i + 1, Len(text))>>

\* seq[:n]
Take(seq, n) == SubSeq(seq, 1, IF Len(seq) < n THEN Len(seq) ELSE n)

(***************************************************************************)
(* json.loads on the texts of the model: a text parses when, surrounding   *)
(* whitespace aside, it is one of the documents below or an empty object.  *)
(***************************************************************************)
DocMetadataShop == "{\"name\":\"Shop\",\"description\":\"d\",\"businessImpact\":\"high\"}"
DocMetadataBank == "{\"name\":\"Bank\",\"description\":\"e\",\"businessImpact\":\"low\"}"
DocMetadataNoImpact == "{\"name\":\"Shop\",\"description\":\"d\"}"
DocAnalysis == "{\"components\":[{\"name\":\"web\",\"description\":\"ui\"}],\"dependencies\":[],\"singlePointsOfFailure\":[],\"availabilityTier\":\"tier1\"}"
DocNoComponents == "{\"availabilityTier\":\"tier3\"}"
DocComponentsOfStr == "{\"components\":[\"web\"]}"
DocList == "[1]"
DocNumber == "5"
DocString == "\"the components\""

JsonDocTexts ==
    {DocMetadataShop, DocMetadataBank, DocMetadataNoImpact, DocAnalysis,
     DocNoComponents, DocComponentsOfStr, DocList, DocNumber, DocString}

JsonDoc(f) ==
    CASE f = DocMetadataShop ->
           Dict(<<KV("name", Str("Shop")), KV("description", Str("d")),
                  KV("businessImpact", Str("high"))>>)
      [] f = DocMetadataBank ->
           Dict(<<KV("name", Str("Bank")), KV("description", Str("e")),
                  KV("businessImpact", Str("low"))>>)
      [] f = DocMetadataNoImpact ->
           Dict(<<KV("name", Str("Shop")), KV("description", Str("d"))>>)
      [] f = DocAnalysis ->
           Dict(<<KV("components", List(<<Named("web", "ui")>>)),
                  KV("dependencies", List(<<>>)),
                  KV("singlePointsOfFailure", List(<<>>)),
                  KV("availabilityTier", Str("tier1"))>>)
      [] f = DocNoComponents -> Dict(<<KV("availabilityTier", Str("tier3"))>>)
      [] f = DocComponentsOfStr -> Dict(<<KV("components", List(<<Str("web")>>))>>)
      [] f = DocList -> List(<<Number("1")>>)
      [] f = DocNumber -> Number("5")
      [] f = DocString -> Str("the components")

\* "{" whitespace* "}"
IsEmptyObject(text) ==
    /\ Len(text) >= 2
    /\ text[1] = "{"
    /\ text[Len(text)] = "}"
    /\ \A i \in 2..(Len(text) - 1) : text[i] \in Whitespace

json_loads(text) ==
    LET core == strip(text) IN
    IF Len(core) = 1 /\ core[1] \in JsonDocTexts THEN Ok(JsonDoc(core[1]))
    ELSE IF IsEmptyObject(core) THEN Ok(Dict(<<>>))
    ELSE Raise("JSONDecodeError")

\* str.startswith('{') / str.endswith('}') of a fragment
OpensObject(f) ==
    f \in {"{", DocMetadataShop, DocMetadataBank, DocMetadataNoImpact, DocAnalysis,
            DocNoComponents, DocComponentsOfStr}
ClosesObject(f) ==
    f \in {"}", DocMetadataShop, DocMetadataBank, DocMetadataNoImpact, DocAnalysis,
            DocNoComponents, DocComponentsOfStr}

\* a fragment that begins with three backquotes
StartsFence(f) == f \in {FENCE, FENCE_JSON}

\* closing_fence for a pattern without the newline before the closing fence:
\* the group runs up to the first fence, k + 1 is where that fence starts
RECURSIVE closing_fence_any(_, _)
closing_fence_any(text, i) ==
    IF i > Len(text) THEN 0
    ELSE IF StartsFence(text[i]) THEN i
    ELSE closing_fence_any(text, i + 1)

\* first k >= i with a newline at k and a fence starting at k + 1, 0 if none:
\* where the lazy group of the pattern stops
RECURSIVE closing_fence(_, _)
closing_fence(text, i) ==
    IF i + 1 > Len(text) THEN 0
    ELSE IF text[i] = NL /\ StartsFence(text[i + 1]) THEN i
    ELSE closing_fence(text, i + 1)

\* re.search(r'[fence]json\n([\s\S]*?)\n[fence]', text) scanning start
\* positions from i: <<start of group(1), end of group(1)>>, or <<>> for None
RECURSIVE re_search(_, _)
re_search(text, i) ==
    IF i + 1 > Len(text) THEN <<>>
    ELSE IF text[i] = FENCE_JSON /\ text[i + 1] = NL /\ closing_fence(text, i + 2) # 0
         THEN <<i + 2, closing_fence(text, i + 2) - 1>>
    ELSE re_search(text, i + 1)

\* the text handed to json.loads
extract_json_text(text) ==
    LET json_match == re_search(text, 1)
        trimmed == strip(text)
    IN  IF json_match # <<>> THEN SubSeq(text, json_match[1], json_match[2])
        ELSE IF /\ trimmed # <<>>
                /\ OpensObject(trimmed[1])
                /\ ClosesObject(trimmed[Len(trimmed)])
             THEN text
        ELSE text

(***************************************************************************)
(* SREAgent                                                                *)
(***************************************************************************)
ExtractedComponent(name, desc) ==
    Dict(<<KV("name", Str(name)), KV("type", Str("service")),
           KV("description", Str(desc)), KV("technologies", List(<<>>))>>)

TenLines == 10

\* the loop body of _extract_structured_analysis for one line: the components
\* it appends
component_of_line(line) ==
    IF find(line, ":", 1) # 0 /\ strlen(strip(line)) > 5
    THEN LET name == join(strip(split(line, ":")[1]))
             desc == IF Len(split1(line, ":")) > 1
                     THEN join(strip(split1(line, ":")[2]))
                     ELSE ""
         IN  IF name # "" /\ desc # ""
             THEN <<ExtractedComponent(name, desc)>>
             ELSE <<>>
    ELSE <<>>

RECURSIVE components_of_lines(_)
components_of_lines(lines) ==
    IF lines = <<>> THEN <<>>
    ELSE component_of_line(Head(lines)) \o components_of_lines(Tail(lines))

\* _extract_structured_analysis looping over component_lines instead of
\* component_lines[:10]
_extract_structured_analysis_uncapped(text) ==
    LET component_section ==
            IF find(text, "Components", 1) # 0
            THEN split(text, "Components")
            ELSE << <<>>, <<>> >>
        components ==
            IF Len(component_section) > 1
            THEN components_of_lines(split(component_section[2], NL))
            ELSE <<>>
    IN  Dict(<<KV("components", List(components)),
               KV("dependencies", List(<<>>)),
               KV("criticalPaths", List(<<>>)),
               KV("singlePointsOfFailure", List(<<>>)),
               KV("recommendations", List(<<>>)),
               KV("availabilityTier", Str("tier2")),
               KV("tierJustification",
                  Str("Default justification based on text analysis"))>>)

_extract_structured_analysis(text) ==
    LET component_section ==
            IF find(text, "Components", 1) # 0
            THEN split(text, "Components")
            ELSE << <<>>, <<>> >>
        components ==
            IF Len(component_section) > 1
            THEN components_of_lines(Take(split(component_section[2], NL), TenLines))
            ELSE <<>>
    IN  Dict(<<KV("components", List(components)),
               KV("dependencies", List(<<>>)),
               KV("criticalPaths", List(<<>>)),
               KV("singlePointsOfFailure", List(<<>>)),
               KV("recommendations", List(<<>>)),
               KV("availabilityTier", Str("tier2")),
               KV("tierJustification",
                  Str("Default justification based on text analysis"))>>)

\* analyze_system_architecture from the reply text on: the parsed JSON, or the
\* text extractor's record when json.loads raises JSONDecodeError
structured_analysis(text) ==
    LET parsed == json_loads(extract_json_text(text)) IN
    IF parsed.exc = "" THEN parsed.val
    ELSE _extract_structured_analysis(text)

\* os.getenv: <<>> is None, <<v>> the value v
os_getenv(name) == environ[name]

\* SREAgent(): model_ok is whether the try block of __init__ ran through, so
\* that self.model exists
SREAgent(model_ok) ==
    [api_key |-> os_getenv("GOOGLE_API_KEY"), has_model |-> model_ok]

\* analyze_system_architecture up to the generate_content call: it raises,
\* returns a value, or reaches the call
before_generate_content(agent, diagram_data) ==
    IF agent.api_key = <<>>
    THEN [step |-> "raise", exc |-> "TypeError", val |-> None]
    ELSE IF diagram_data = ""
    THEN [step |-> "return", exc |-> "", val |-> _create_mock_system_analysis]
    ELSE IF ~agent.has_model
    THEN [step |-> "return", exc |-> "", val |-> _create_mock_system_analysis]
    ELSE [step |-> "call", exc |-> "", val |-> None]

\* analyze_system_architecture once generate_content has raised or replied
after_generate_content(outcome) ==
    IF outcome.kind = "raise" THEN _create_mock_system_analysis
    ELSE structured_analysis(outcome.text)

\* subscripting v[key] with a str key
Subscript(v, key) ==
    IF v.t = "dict"
    THEN IF HasKey(v, key) THEN Ok(Item(v, key)) ELSE Raise("KeyError")
    ELSE Raise("TypeError")

\* [f(c[k1], c[k2], ...) for c in v]: the exception it raises, "" if none
ForEachSubscript(v, keys) ==
    CASE v.t = "list" ->
           IF \E i \in DOMAIN v.arr : v.arr[i].t # "dict" THEN "TypeError"
           ELSE IF \E i \in DOMAIN v.arr : \E k \in keys : ~HasKey(v.arr[i], k)
                THEN "KeyError"
           ELSE ""
      [] v.t = "str" -> IF v.s = "" THEN "" ELSE "TypeError"
      [] v.t = "dict" -> IF v.obj = <<>> THEN "" ELSE "TypeError"
      [] OTHER -> "TypeError"

\* the first exception among a sequence of evaluation results, "" if none
RECURSIVE FirstExc(_)
FirstExc(excs) ==
    IF excs = <<>> THEN ""
    ELSE IF Head(excs) # "" THEN Head(excs)
    ELSE FirstExc(Tail(excs))

SubscriptEach(v, key, keys) ==
    IF Subscript(v, key).exc # "" THEN Subscript(v, key).exc
    ELSE ForEachSubscript(Subscript(v, key).val, keys)

generate_chaos_testing_plan(system_analysis, metadata) ==
    LET exc == FirstExc(<<
            SubscriptEach(system_analysis, "components", {"name", "description"}),
            SubscriptEach(system_analysis, "dependencies", {"source", "target", "type"}),
            SubscriptEach(system_analysis, "singlePointsOfFailure", {"name", "impact"}),
            Subscript(system_analysis, "availabilityTier").exc >>)
    IN  IF exc # "" THEN Raise(exc) ELSE Ok(_create_mock_chaos_testing_plan)

\* now is the day datetime.now() reads off the clock
generate_prr_document(system_analysis, chaos_testing_plan, metadata, now) ==
    _create_mock_prr_document(metadata, now)

(***************************************************************************)
(* Request inputs                                                          *)
(***************************************************************************)
\* str(uuid.uuid4()): a token no earlier call returned
Token(i) == "id" \o ToString(i)
uuid4 == Token(uuid_count + 1)

\* identifiers a client may send to a stage: the keys of the store the stage
\* consults, and one identifier that is no key of it
FileIds == DOMAIN processing_files \cup {"missing"}
AnalysisIds == DOMAIN analysis_results \cup {"missing"}
DocumentIds == DOMAIN prr_documents \cup {"missing"}

\* the days datetime.now() may read off the clock
Days == {0, 1}

\* ProjectMetadata instances (request bodies FastAPI has validated)
ProjectMetadatas ==
    {[name |-> "Shop", description |-> "d", businessImpact |-> "high"]}

\* metadata_json form values
MetadataJsonTexts ==
    {<<DocMetadataShop>>, <<DocMetadataBank>>, <<DocMetadataNoImpact>>,
     <<"not json">>}

FileContents == {"", "PNGDATA"}

\* the format query parameter: omitted, or a value
FormatParams == {<<>>, <<"pdf">>, <<"docx">>, <<"PDF">>, <<"">>}

TestReplies == {<<"Hello, the API is working!">>}

ApiKeys == {<<>>, <<"AIzaSyA-0123456789">>}

\* what generate_content does: it raises, or response.text is one of these
ModelReplies ==
    {<<FENCE_JSON, NL, DocAnalysis, NL, FENCE>>,
     <<DocNoComponents>>,
     <<DocComponentsOfStr>>,
     <<DocNumber>>,
     <<"Components", NL, "API", ":", " ", "Gateway">>}

ModelOutcomes ==
    {[kind |-> "raise", text |-> <<>>]}
        \cup {[kind |-> "reply", text |-> r] : r \in ModelReplies}

\* ProjectMetadata(**v)
ProjectMetadata(v) ==
    IF v.t # "dict" THEN Raise("TypeError")
    ELSE IF \E k \in {"name", "description", "businessImpact"} : ~HasKey(v, k)
    THEN Raise("ValidationError")
    ELSE [exc |-> "",
          val |-> [name |-> Item(v, "name").s,
                   description |-> Item(v, "description").s,
                   businessImpact |-> Item(v, "businessImpact").s]]

\* ProjectMetadata(**json.loads(metadata_json))
parse_metadata(metadata_json) ==
    IF json_loads(metadata_json).exc # "" THEN json_loads(metadata_json)
    ELSE ProjectMetadata(json_loads(metadata_json).val)

(***************************************************************************)
(* Responses                                                               *)
(***************************************************************************)
\* the handler returned body
Returned(op, req, body) ==
    [op |-> op, req |-> req, status |-> "returned", body |-> body]

\* exc, raised in function where, left the handler: an unhandled fault
\* (HTTP 500)
Raised(op, req, exc, where) ==
    [op |-> op, req |-> req, status |-> "raised", exc |-> exc, where |-> where]

NoCall == <<>>

Init ==
    /\ processing_files = <<>>
    /\ analysis_results = <<>>
    /\ prr_documents = <<>>
    /\ uuid_count = 0
    /\ environ \in [GOOGLE_API_KEY : ApiKeys]
    /\ call = NoCall
    /\ last = [op |-> "none", status |-> "none"]
    /\ analysis_text = <<>>
    /\ json_text = <<>>
    /\ structured = None
    /\ returns = <<>>

extraction == <<analysis_text, json_text, structured>>

\* upload_diagram storing the file under its filename instead of a new token
upload_diagram_keyed_by_filename(filename, file_content) ==
    /\ call = NoCall
    /\ processing_files' =
           (filename :> [filename |-> filename, content |-> file_content,
                         content_type |-> "image/png"]) @@ processing_files
    /\ last' = Returned("upload_diagram", [filename |-> filename, content |-> file_content],
                        [fileId |-> filename, filename |-> filename])
    /\ UNCHANGED <<analysis_results, prr_documents, uuid_count, environ, call, extraction, returns>>

\* upload_diagram refusing a file of zero bytes
upload_diagram_rejecting_empty(filename, file_content) ==
    /\ call = NoCall
    /\ IF file_content = ""
       THEN /\ last' = Returned("upload_diagram",
                                [filename |-> filename, content |-> file_content],
                                [error |-> "Empty file."])
            /\ UNCHANGED <<processing_files, uuid_count>>
       ELSE /\ uuid_count < MaxTokens
            /\ processing_files' = processing_files @@
                   (uuid4 :> [filename |-> filename, content |-> file_content,
                              content_type |-> "image/png"])
            /\ uuid_count' = uuid_count + 1
            /\ last' = Returned("upload_diagram",
                                [filename |-> filename, content |-> file_content],
                                [fileId |-> uuid4, filename |-> filename])
    /\ UNCHANGED <<analysis_results, prr_documents, environ, call, extraction, returns>>

upload_diagram(filename, file_content) ==
    /\ call = NoCall
    /\ uuid_count < MaxTokens
    /\ processing_files' = processing_files @@
           (uuid4 :> [filename |-> filename, content |-> file_content,
                      content_type |-> "image/png"])
    /\ uuid_count' = uuid_count + 1
    /\ last' = Returned("upload_diagram", [filename |-> filename, content |-> file_content],
                        [fileId |-> uuid4, filename |-> filename])
    /\ UNCHANGED <<analysis_results, prr_documents, environ, call, extraction, returns>>

ping ==
    /\ call = NoCall
    /\ last' = Returned("ping", <<>>,
                        [status |-> "success", message |-> "API is working!"])
    /\ UNCHANGED <<stores, uuid_count, environ, call, extraction, returns>>

check_env ==
    /\ call = NoCall
    /\ last' = Returned("check_env", <<>>,
            [api_key_status |->
                IF os_getenv("GOOGLE_API_KEY") \in {<<>>, <<"">>} THEN "Not set" ELSE "Set"])
    /\ UNCHANGED <<stores, uuid_count, environ, call, extraction, returns>>

\* lines 641-645 of analyze_system: the exception the logging block raises,
\* "" when it runs through
log_first_component(system_analysis) ==
    LET sa == system_analysis
        has == CASE sa.t = "dict" -> HasKey(sa, "components")
                 [] sa.t = "list" -> \E i \in DOMAIN sa.arr : sa.arr[i] = Str("components")
                 [] sa.t = "str" -> sa.s \in {"components", "the components"}
                 [] OTHER -> FALSE
        comps == Item(sa, "components")
    IN  IF sa.t \notin {"dict", "list", "str"} THEN "TypeError"
        ELSE IF ~has THEN ""
        ELSE IF sa.t # "dict" THEN "TypeError"
        ELSE IF comps.t \notin {"dict", "list", "str"} THEN "TypeError"
        ELSE IF comps.t = "list" /\ comps.arr = <<>> THEN ""
        ELSE IF comps.t = "str" /\ comps.s = "" THEN ""
        ELSE IF comps.t = "dict" /\ comps.obj = <<>> THEN ""
        ELSE IF comps.t = "dict" THEN "KeyError"
        ELSE IF comps.t = "str" THEN "AttributeError"
        ELSE IF comps.arr[1].t # "dict" THEN "AttributeError"
        ELSE ""

\* store_system_analysis returning its answer without the assignment to
\* analysis_results[analysis_id]
store_system_analysis_unsaved(req, system_analysis, seen) ==
    IF log_first_component(system_analysis) # ""
    THEN /\ last' = Raised("analyze_system", req,
                           log_first_component(system_analysis), "analyze_system")
                        @@ seen
         /\ UNCHANGED <<analysis_results, uuid_count>>
    ELSE /\ analysis_results' = analysis_results
         /\ uuid_count' = uuid_count + 1
         /\ last' = Returned("analyze_system", req,
                             [analysisId |-> uuid4, result |-> system_analysis])
                        @@ seen

\* analyze_system from the return of analyze_system_architecture on; seen
\* records what the handler went through (the file content, the agent, the
\* generate_content calls made and their outcome)
store_system_analysis(req, system_analysis, seen) ==
    IF log_first_component(system_analysis) # ""
    THEN /\ last' = Raised("analyze_system", req,
                           log_first_component(system_analysis), "analyze_system")
                        @@ seen
         /\ UNCHANGED <<analysis_results, uuid_count>>
    ELSE /\ analysis_results' = analysis_results @@
                (uuid4 :> [type |-> "system_analysis", data |-> system_analysis,
                           metadata |-> req.metadata])
         /\ uuid_count' = uuid_count + 1
         /\ last' = Returned("analyze_system", req,
                             [analysisId |-> uuid4, result |-> system_analysis])
                        @@ seen

NoOutcome == [kind |-> "none", text |-> <<>>]

\* analyze_system writing a placeholder record into analysis_results before
\* it calls the model
analyze_system_marking_pending(file_id, metadata, model_ok) ==
    LET req == [fileId |-> file_id, metadata |-> metadata]
        file_data == processing_files[file_id]
        sre_agent == SREAgent(model_ok)
        before == before_generate_content(sre_agent, file_data.content)
        seen == [content |-> file_data.content, agent |-> sre_agent,
                 model_calls |-> 0, outcome |-> NoOutcome]
    IN
    /\ call = NoCall
    /\ IF file_id \notin DOMAIN processing_files
       THEN /\ last' = Returned("analyze_system", req,
                                [error |-> "File not found. Please upload the file again."])
            /\ UNCHANGED <<analysis_results, uuid_count, call>>
       ELSE /\ uuid_count < MaxTokens
            /\ CASE before.step = "raise" ->
                      /\ last' = Raised("analyze_system", req, before.exc,
                                        "analyze_system_architecture") @@ seen
                      /\ UNCHANGED <<analysis_results, uuid_count, call>>
                 [] before.step = "return" ->
                      /\ store_system_analysis(req, before.val, seen)
                      /\ UNCHANGED call
                 [] before.step = "call" ->
                      /\ call' = <<[req |-> req, seen |-> seen]>>
                      /\ last' = [op |-> "analyze_system", req |-> req,
                                  status |-> "blocked"] @@ seen
                      /\ analysis_results' =
                            ("pending" :> [type |-> "system_analysis", data |-> None,
                                           metadata |-> metadata]) @@ analysis_results
                      /\ UNCHANGED uuid_count
    /\ UNCHANGED <<processing_files, prr_documents, environ, extraction, returns>>

\* analyze_system up to the point where it returns, raises, or blocks the
\* event loop in generate_content
analyze_system(file_id, metadata, model_ok) ==
    LET req == [fileId |-> file_id, metadata |-> metadata]
        file_data == processing_files[file_id]
        sre_agent == SREAgent(model_ok)
        before == before_generate_content(sre_agent, file_data.content)
        seen == [content |-> file_data.content, agent |-> sre_agent,
                 model_calls |-> 0, outcome |-> NoOutcome]
    IN
    /\ call = NoCall
    /\ IF file_id \notin DOMAIN processing_files
       THEN /\ last' = Returned("analyze_system", req,
                                [error |-> "File not found. Please upload the file again."])
            /\ UNCHANGED <<analysis_results, uuid_count, call>>
       ELSE /\ uuid_count < MaxTokens
            /\ CASE before.step = "raise" ->
                      /\ last' = Raised("analyze_system", req, before.exc,
                                        "analyze_system_architecture") @@ seen
                      /\ UNCHANGED <<analysis_results, uuid_count, call>>
                 [] before.step = "return" ->
                      /\ store_system_analysis(req, before.val, seen)
                      /\ UNCHANGED call
                 [] before.step = "call" ->
                      /\ call' = <<[req |-> req, seen |-> seen]>>
                      /\ last' = [op |-> "analyze_system", req |-> req,
                                  status |-> "blocked"] @@ seen
                      /\ UNCHANGED <<analysis_results, uuid_count>>
    /\ UNCHANGED <<processing_files, prr_documents, environ, extraction, returns>>

\* generate_content raises or returns a reply, and analyze_system runs on to
\* its end
generate_content_returns(outcome) ==
    /\ call # NoCall
    /\ store_system_analysis(call[1].req, after_generate_content(outcome),
            [call[1].seen EXCEPT !.model_calls = 1, !.outcome = outcome])
    /\ call' = NoCall
    /\ UNCHANGED <<processing_files, prr_documents, environ, extraction, returns>>

analyze_destructive_tests(system_analysis_id, metadata_json) ==
    LET req == [system_analysis_id |-> system_analysis_id,
                metadata_json |-> metadata_json]
        system_analysis == analysis_results[system_analysis_id].data
        metadata == parse_metadata(metadata_json)
        destructive_test_plan ==
            generate_chaos_testing_plan(system_analysis, metadata.val)
    IN
    /\ call = NoCall
    /\ IF system_analysis_id \notin DOMAIN analysis_results
       THEN /\ last' = Returned("analyze_destructive_tests", req,
                   [error |-> "System analysis not found. Please analyze the system first."])
            /\ UNCHANGED <<analysis_results, uuid_count>>
       ELSE IF metadata.exc # ""
       THEN /\ last' = Raised("analyze_destructive_tests", req, metadata.exc,
                              "analyze_destructive_tests")
            /\ UNCHANGED <<analysis_results, uuid_count>>
       ELSE IF destructive_test_plan.exc # ""
       THEN /\ last' = Raised("analyze_destructive_tests", req,
                              destructive_test_plan.exc, "generate_chaos_testing_plan")
            /\ UNCHANGED <<analysis_results, uuid_count>>
       ELSE /\ uuid_count < MaxTokens
            /\ analysis_results' = analysis_results @@
                   (uuid4 :> [type |-> "destructive_testing",
                              data |-> destructive_test_plan.val,
                              system_analysis_id |-> system_analysis_id,
                              metadata |-> metadata.val])
            /\ uuid_count' = uuid_count + 1
            /\ last' = Returned("analyze_destructive_tests", req,
                   [analysisId |-> uuid4, result |-> destructive_test_plan.val])
    /\ UNCHANGED <<processing_files, prr_documents, environ, call, extraction, returns>>

\* generate_prr without the membership test of destructive_testing_id, the
\* plan read with analysis_results.get(destructive_testing_id, {})
generate_prr_unchecked_plan(system_analysis_id, destructive_testing_id, metadata_json) ==
    LET req == [system_analysis_id |-> system_analysis_id,
                destructive_testing_id |-> destructive_testing_id,
                metadata_json |-> metadata_json]
        system_analysis == analysis_results[system_analysis_id].data
        chaos_testing_plan ==
            IF destructive_testing_id \in DOMAIN analysis_results
            THEN analysis_results[destructive_testing_id].data
            ELSE None
        metadata == parse_metadata(metadata_json)
        prr_document(now) ==
            generate_prr_document(system_analysis, chaos_testing_plan, metadata.val, now)
    IN
    /\ call = NoCall
    /\ IF system_analysis_id \notin DOMAIN analysis_results
       THEN /\ last' = Returned("generate_prr", req,
                                [error |-> "System analysis not found."])
            /\ UNCHANGED <<prr_documents, uuid_count>>
       ELSE IF metadata.exc # ""
       THEN /\ last' = Raised("generate_prr", req, metadata.exc, "generate_prr")
            /\ UNCHANGED <<prr_documents, uuid_count>>
       ELSE /\ uuid_count < MaxTokens
            /\ \E now \in Days :
                 /\ prr_documents' = prr_documents @@
                        (uuid4 :> [document |-> prr_document(now),
                                   system_analysis_id |-> system_analysis_id,
                                   destructive_testing_id |-> destructive_testing_id,
                                   metadata |-> metadata.val])
                 /\ last' = Returned("generate_prr", req,
                        [documentId |-> uuid4, document |-> prr_document(now)])
            /\ uuid_count' = uuid_count + 1
    /\ UNCHANGED <<processing_files, analysis_results, environ, call, extraction,
                   returns>>

generate_prr(system_analysis_id, destructive_testing_id, metadata_json) ==
    LET req == [system_analysis_id |-> system_analysis_id,
                destructive_testing_id |-> destructive_testing_id,
                metadata_json |-> metadata_json]
        system_analysis == analysis_results[system_analysis_id].data
        chaos_testing_plan == analysis_results[destructive_testing_id].data
        metadata == parse_metadata(metadata_json)
        prr_document(now) ==
            generate_prr_document(system_analysis, chaos_testing_plan, metadata.val, now)
    IN
    /\ call = NoCall
    /\ IF system_analysis_id \notin DOMAIN analysis_results
       THEN /\ last' = Returned("generate_prr", req,
                                [error |-> "System analysis not found."])
            /\ UNCHANGED <<prr_documents, uuid_count>>
       ELSE IF destructive_testing_id \notin DOMAIN analysis_results
       THEN /\ last' = Returned("generate_prr", req,
                                [error |-> "Destructive testing analysis not found."])
            /\ UNCHANGED <<prr_documents, uuid_count>>
       ELSE IF metadata.exc # ""
       THEN /\ last' = Raised("generate_prr", req, metadata.exc, "generate_prr")
            /\ UNCHANGED <<prr_documents, uuid_count>>
       ELSE /\ uuid_count < MaxTokens
            /\ \E now \in Days :
                 /\ prr_documents' = prr_documents @@
                        (uuid4 :> [document |-> prr_document(now),
                                   system_analysis_id |-> system_analysis_id,
                                   destructive_testing_id |-> destructive_testing_id,
                                   metadata |-> metadata.val])
                 /\ last' = Returned("generate_prr", req,
                        [documentId |-> uuid4, document |-> prr_document(now)])
            /\ uuid_count' = uuid_count + 1
    /\ UNCHANGED <<processing_files, analysis_results, environ, call, extraction, returns>>

\* download_prr without its membership test: prr_documents[document_id]
\* raises KeyError for an unknown document_id
download_prr_unchecked(document_id, format_param) ==
    LET req == [document_id |-> document_id, format |-> format_param]
        format == IF format_param = <<>> THEN "pdf" ELSE format_param[1]
    IN
    /\ call = NoCall
    /\ last' =
         IF document_id \notin DOMAIN prr_documents
         THEN Raised("download_prr", req, "KeyError", "download_prr")
         ELSE IF format \in {"pdf", "docx"}
         THEN Returned("download_prr", req,
                       [documentUrl |-> "/downloads/" \o document_id \o "." \o format,
                        format |-> format])
         ELSE Returned("download_prr", req,
                       [error |-> "Unsupported format. Use 'pdf' or 'docx'."])
    /\ UNCHANGED <<stores, uuid_count, environ, call, extraction, returns>>

\* download_prr comparing format.lower(): "PDF" is served as pdf
download_prr_any_case(document_id, format_param) ==
    LET req == [document_id |-> document_id, format |-> format_param]
        format == IF format_param \in {<<>>, <<"PDF">>} THEN "pdf" ELSE format_param[1]
    IN
    /\ call = NoCall
    /\ last' =
         IF document_id \notin DOMAIN prr_documents
         THEN Returned("download_prr", req, [error |-> "PRR document not found."])
         ELSE IF format \in {"pdf", "docx"}
         THEN Returned("download_prr", req,
                       [documentUrl |-> "/downloads/" \o document_id \o "." \o format,
                        format |-> format])
         ELSE Returned("download_prr", req,
                       [error |-> "Unsupported format. Use 'pdf' or 'docx'."])
    /\ UNCHANGED <<stores, uuid_count, environ, call, extraction, returns>>

\* download_prr keeping the URL it made in the document's record
download_prr_caching_url(document_id, format_param) ==
    LET req == [document_id |-> document_id, format |-> format_param]
        format == IF format_param = <<>> THEN "pdf" ELSE format_param[1]
        url == "/downloads/" \o document_id \o "." \o format
    IN
    /\ call = NoCall
    /\ IF document_id \notin DOMAIN prr_documents
       THEN /\ last' = Returned("download_prr", req,
                                [error |-> "PRR document not found."])
            /\ UNCHANGED prr_documents
       ELSE IF format \in {"pdf", "docx"}
       THEN /\ last' = Returned("download_prr", req,
                                [documentUrl |-> url, format |-> format])
            /\ prr_documents' =
                  [prr_documents EXCEPT ![document_id] =
                      [documentUrl |-> url] @@ prr_documents[document_id]]
       ELSE /\ last' = Returned("download_prr", req,
                                [error |-> "Unsupported format. Use 'pdf' or 'docx'."])
            /\ UNCHANGED prr_documents
    /\ UNCHANGED <<processing_files, analysis_results, uuid_count, environ, call,
                   extraction, returns>>

\* format_param is the query parameter: <<>> when the request omits it
download_prr(document_id, format_param) ==
    LET req == [document_id |-> document_id, format |-> format_param]
        format == IF format_param = <<>> THEN "pdf" ELSE format_param[1]
    IN
    /\ call = NoCall
    /\ last' =
         IF document_id \notin DOMAIN prr_documents
         THEN Returned("download_prr", req, [error |-> "PRR document not found."])
         ELSE IF format = "pdf"
         THEN Returned("download_prr", req,
                       [documentUrl |-> "/downloads/" \o document_id \o ".pdf",
                        format |-> "pdf"])
         ELSE IF format = "docx"
         THEN Returned("download_prr", req,
                       [documentUrl |-> "/downloads/" \o document_id \o ".docx",
                        format |-> "docx"])
         ELSE Returned("download_prr", req,
                       [error |-> "Unsupported format. Use 'pdf' or 'docx'."])
    /\ UNCHANGED <<stores, uuid_count, environ, call, extraction, returns>>

\* test_gemini: its own generate_content call raises or replies
test_gemini(outcome) ==
    /\ call = NoCall
    /\ last' = Returned("test_gemini", <<>>,
            IF outcome.kind = "raise"
            THEN [status |-> "error", message |-> "generate_content failed"]
            ELSE [status |-> "success", message |-> join(outcome.text)])
    /\ UNCHANGED <<stores, uuid_count, environ, call, extraction, returns>>

Next ==
    \/ \E c \in FileContents : upload_diagram("diagram.png", c)
    \/ ping
    \/ check_env
    \/ \E id \in FileIds, m \in ProjectMetadatas, ok \in BOOLEAN :
          analyze_system(id, m, ok)
    \/ \E o \in ModelOutcomes : generate_content_returns(o)
    \/ \E id \in AnalysisIds, mj \in MetadataJsonTexts :
          analyze_destructive_tests(id, mj)
    \/ \E sid \in AnalysisIds, did \in AnalysisIds, mj \in MetadataJsonTexts :
          generate_prr(sid, did, mj)
    \/ \E id \in DocumentIds, f \in FormatParams : download_prr(id, f)
    \/ \E o \in {[kind |-> "raise", text |-> <<>>]}
                 \cup {[kind |-> "reply", text |-> r] : r \in TestReplies} :
          test_gemini(o)

Spec == Init /\ [][Next]_vars

(***************************************************************************)
(* analyze_system_architecture from response.text on (lines 178-209), for  *)
(* the replies generate_content may give.                                  *)
(***************************************************************************)
\* all fragment sequences of length at most n over alphabet
TextsOver(alphabet, n) == UNION {[1..k -> alphabet] : k \in 0..n}

FenceAlphabet == {FENCE_JSON, FENCE, NL, "{", "}"}
HeadingAlphabet == {"Components", NL, ":", " ", "a", "Gateway"}

\* a line naming a component, and an empty line
ReplyLines == {<<"a", ":", "Gateway">>, <<>>}

\* "\n" + line for each line
RECURSIVE unlines(_)
unlines(lines) ==
    IF lines = <<>> THEN <<>>
    ELSE <<NL>> \o Head(lines) \o unlines(Tail(lines))

\* response.text: replies of fences and braces, replies around the heading,
\* the heading above a list of lines, and a fenced block with text around it
ReplyTexts ==
    TextsOver(FenceAlphabet, MaxReplyLen)
      \cup TextsOver(HeadingAlphabet, MaxTextLen)
      \cup {<<"Components">> \o unlines(ls) : ls \in TextsOver(ReplyLines, MaxLines)}
      \cup {pre \o <<FENCE_JSON, NL>> \o t \o <<NL, FENCE>> \o u :
                pre \in {<<>>, <<"{">>},
                t \in TextsOver({"{", "}", "Components"}, MaxTextLen - 3),
                u \in TextsOver(HeadingAlphabet \cup {"}"}, MaxTextLen - 3)}

InitReply ==
    /\ processing_files = <<>>
    /\ analysis_results = <<>>
    /\ prr_documents = <<>>
    /\ uuid_count = 0
    /\ environ = [GOOGLE_API_KEY |-> <<"AIzaSyA-0123456789">>]
    /\ call = NoCall
    /\ last = [op |-> "generate_content", status |-> "returned"]
    /\ analysis_text \in ReplyTexts
    /\ json_text = <<>>
    /\ structured = None
    /\ returns = <<>>

\* lines 187-199: json_text is bound
search_code_block ==
    /\ last.op = "generate_content"
    /\ json_text' = extract_json_text(analysis_text)
    /\ last' = [op |-> "analyze_system_architecture", status |-> "extracted"]
    /\ UNCHANGED <<stores, uuid_count, environ, call, analysis_text, structured,
                   returns>>

\* lines 202-209: json.loads(json_text), the text extractor when it raises
\* JSONDecodeError, and the return
parse_json_text ==
    /\ last.status = "extracted"
    /\ structured' = structured_analysis(analysis_text)
    /\ last' = [op |-> "analyze_system_architecture", status |-> "returned"]
    /\ UNCHANGED <<stores, uuid_count, environ, call, analysis_text, json_text,
                   returns>>

NextReply == search_code_block \/ parse_json_text

SpecReply == InitReply /\ [][NextReply]_vars

(***************************************************************************)
(* generate_chaos_testing_plan and generate_prr_document, called on the    *)
(* payloads the stores may hold.                                           *)
(***************************************************************************)
\* payloads of stored records: the mock analysis, the mock plan, a parsed
\* reply without components
StoredPayloads ==
    {_create_mock_system_analysis, _create_mock_chaos_testing_plan,
     JsonDoc(DocNoComponents)}

GeneratorMetadatas ==
    {[name |-> "Shop", description |-> "d", businessImpact |-> "high"],
     [name |-> "Shop", description |-> "e", businessImpact |-> "high"],
     [name |-> "Bank", description |-> "e", businessImpact |-> "low"]}

InitGenerate ==
    /\ processing_files = <<>>
    /\ analysis_results = <<>>
    /\ prr_documents = <<>>
    /\ uuid_count = 0
    /\ environ = [GOOGLE_API_KEY |-> <<"AIzaSyA-0123456789">>]
    /\ call = NoCall
    /\ last = [op |-> "none", status |-> "none"]
    /\ analysis_text = <<>>
    /\ json_text = <<>>
    /\ structured = None
    /\ returns = <<>>

\* generate_chaos_testing_plan handing out one shared plan object that an
\* earlier caller has emptied
call_generate_chaos_testing_plan_shared(system_analysis, metadata) ==
    /\ Len(returns) < MaxCalls
    /\ returns' = Append(returns,
           [fn |-> "generate_chaos_testing_plan",
            args |-> <<system_analysis, metadata>>,
            clock |-> <<>>,
            result |-> IF returns = <<>>
                       THEN generate_chaos_testing_plan(system_analysis, metadata)
                       ELSE Ok(Dict(<<>>))])
    /\ UNCHANGED <<stores, uuid_count, environ, call, last, extraction>>

\* await sre_agent.generate_chaos_testing_plan(system_analysis, metadata)
call_generate_chaos_testing_plan(system_analysis, metadata) ==
    /\ Len(returns) < MaxCalls
    /\ returns' = Append(returns,
           [fn |-> "generate_chaos_testing_plan",
            args |-> <<system_analysis, metadata>>,
            clock |-> <<>>,
            result |-> generate_chaos_testing_plan(system_analysis, metadata)])
    /\ UNCHANGED <<stores, uuid_count, environ, call, last, extraction>>

\* await sre_agent.generate_prr_document(system_analysis, chaos_testing_plan,
\* metadata), datetime.now() reading day now
call_generate_prr_document(system_analysis, chaos_testing_plan, metadata) ==
    /\ Len(returns) < MaxCalls
    /\ \E now \in Days :
         returns' = Append(returns,
           [fn |-> "generate_prr_document",
            args |-> <<system_analysis, chaos_testing_plan, metadata>>,
            clock |-> <<now>>,
            result |-> Ok(generate_prr_document(system_analysis, chaos_testing_plan,
                                                metadata, now))])
    /\ UNCHANGED <<stores, uuid_count, environ, call, last, extraction>>

NextGenerate ==
    \/ \E sa \in StoredPayloads, m \in GeneratorMetadatas :
          call_generate_chaos_testing_plan(sa, m)
    \/ \E sa \in StoredPayloads, plan \in StoredPayloads, m \in GeneratorMetadatas :
          call_generate_prr_document(sa, plan, m)

SpecGenerate == InitGenerate /\ [][NextGenerate]_vars

(***************************************************************************)
(* Properties of the request handlers (specification Spec)                 *)
(***************************************************************************)
\* the client got an {error} payload
IsError(r) == r.status = "returned" /\ "error" \in DOMAIN r.body

\* the file the last analyze_system request named was in the upload store
AnalyzedKnownFile ==
    /\ last.op = "analyze_system"
    /\ last.req.fileId \in DOMAIN processing_files

TitlesOf(sections) == [i \in DOMAIN sections |-> Item(sections[i], "title").s]

\* the last request named an identifier that the store its stage consults
\* does not hold
UnknownIdentifier ==
    \/ /\ last.op = "analyze_system"
       /\ last.req.fileId \notin DOMAIN processing_files
    \/ /\ last.op = "analyze_destructive_tests"
       /\ last.req.system_analysis_id \notin DOMAIN analysis_results
    \/ /\ last.op = "generate_prr"
       /\ \/ last.req.system_analysis_id \notin DOMAIN analysis_results
          \/ last.req.destructive_testing_id \notin DOMAIN analysis_results
    \/ /\ last.op = "download_prr"
       /\ last.req.document_id \notin DOMAIN prr_documents

\* C1: a stage given an identifier that is not in the store it consults
\* returns an {error} payload and does not raise, whatever metadata,
\* metadata_json or format the request carries.
C1_UnknownIdentifierIsReported == UnknownIdentifier => IsError(last)

\* C1 witness: generate-prr with a known system_analysis_id, an unknown
\* destructive_testing_id and unparsable metadata_json got an {error} payload.
C1_Witness ==
    /\ last.op = "generate_prr"
    /\ last.req.system_analysis_id \in DOMAIN analysis_results
    /\ last.req.destructive_testing_id \notin DOMAIN analysis_results
    /\ last.req.metadata_json = <<"not json">>
    /\ IsError(last)

\* C2: analyze-system on an uploaded file of zero bytes returns {analysisId,
\* result} with the fixed mock SystemAnalysis (tier2, first component
\* "Frontend Web App") and calls the model not once, in every environment,
\* also with no API key set.
C2_EmptyFileGivesMock ==
    (AnalyzedKnownFile /\ last.content = "") =>
        /\ last.status = "returned"
        /\ last.body.result = _create_mock_system_analysis
        /\ Item(last.body.result, "availabilityTier").s = "tier2"
        /\ Item(Item(last.body.result, "components").arr[1], "name").s
              = "Frontend Web App"
        /\ last.model_calls = 0

\* C3: with non-empty diagram bytes analyze_system_architecture never lets an
\* exception reach analyze_system, and when generate_content raises or the
\* agent has no model it returns the fixed mock SystemAnalysis.
C3_AnalyzerNeverRaises ==
    (AnalyzedKnownFile /\ last.content # "" /\ last.status # "blocked") =>
        /\ ~(last.status = "raised" /\ last.where = "analyze_system_architecture")
        /\ (last.outcome.kind = "raise" \/ ~last.agent.has_model) =>
              /\ last.status = "returned"
              /\ last.body.result = _create_mock_system_analysis

\* C4: with no API key in the environment analyze-system on an existing
\* fileId returns {analysisId, result} with the fixed mock SystemAnalysis and
\* stores that record; it does not raise.
C4_MissingKeyDegradesToMock ==
    (AnalyzedKnownFile /\ last.agent.api_key = <<>>) =>
        /\ last.status = "returned"
        /\ last.body.result = _create_mock_system_analysis
        /\ last.body.analysisId \in DOMAIN analysis_results
        /\ analysis_results[last.body.analysisId].data = _create_mock_system_analysis

\* the last request was analyze-destructive-tests or generate-prr with
\* identifiers the analysis store holds
StageWithKnownIdentifiers ==
    \/ /\ last.op = "analyze_destructive_tests"
       /\ last.req.system_analysis_id \in DOMAIN analysis_results
    \/ /\ last.op = "generate_prr"
       /\ last.req.system_analysis_id \in DOMAIN analysis_results
       /\ last.req.destructive_testing_id \in DOMAIN analysis_results

\* C5: analyze-destructive-tests and generate-prr, given stored identifiers
\* and a metadata_json that is not valid JSON or lacks one of name,
\* description, businessImpact, answer with an {error} payload.
C5_BadMetadataIsReported ==
    (StageWithKnownIdentifiers /\ parse_metadata(last.req.metadata_json).exc # "")
        => IsError(last)

\* what download-prr answers for a stored document, by the format parameter
DownloadAnswer(document_id, format_param) ==
    IF format_param \in {<<>>, <<"pdf">>}
    THEN [documentUrl |-> "/downloads/" \o document_id \o "." \o "pdf",
          format |-> "pdf"]
    ELSE [documentUrl |-> "/downloads/" \o document_id \o "." \o "docx",
          format |-> "docx"]

\* C6: for a stored documentId download-prr with format pdf (or none) or docx
\* returns {documentUrl: "/downloads/<documentId>.<format>", format}; every
\* other format value returns an {error} payload; the stores stay as they are.
C6_DownloadPrr ==
    [][last'.op = "download_prr" =>
         /\ stores' = stores
         /\ last'.req.document_id \in DOMAIN prr_documents =>
              /\ last'.status = "returned"
              /\ IF last'.req.format \in {<<>>, <<"pdf">>, <<"docx">>}
                 THEN last'.body =
                        DownloadAnswer(last'.req.document_id, last'.req.format)
                 ELSE "error" \in DOMAIN last'.body]_vars

\* C6 witness: a stored document was requested as docx and its URL returned.
C6_Witness ==
    /\ last.op = "download_prr"
    /\ last.req.document_id \in DOMAIN prr_documents
    /\ last.req.format = <<"docx">>
    /\ last.body.format = "docx"

\* C7: with the model call unavailable, analyze-system on non-empty bytes
\* yields an analysis with a component named "Frontend Web App", the
\* destructive-tests stage on it yields a plan with four experiments.items,
\* and generate-prr on both yields seven sections with the fixed titles; no
\* step fails.
C7_EndToEndWithoutModel ==
    /\ (AnalyzedKnownFile /\ last.content # "" /\ last.status # "blocked"
           /\ last.outcome.kind # "reply") =>
          /\ last.status = "returned"
          /\ \E i \in DOMAIN Item(last.body.result, "components").arr :
                Item(Item(last.body.result, "components").arr[i], "name").s
                  = "Frontend Web App"
    /\ (StageWithKnownIdentifiers /\ last.op = "analyze_destructive_tests"
           /\ analysis_results[last.req.system_analysis_id].data
                 = _create_mock_system_analysis
           /\ parse_metadata(last.req.metadata_json).exc = "") =>
          /\ last.status = "returned"
          /\ Len(Item(Item(last.body.result, "experiments"), "items").arr) = 4
    /\ (StageWithKnownIdentifiers /\ last.op = "generate_prr"
           /\ analysis_results[last.req.system_analysis_id].data
                 = _create_mock_system_analysis
           /\ analysis_results[last.req.destructive_testing_id].data
                 = _create_mock_chaos_testing_plan
           /\ parse_metadata(last.req.metadata_json).exc = "") =>
          /\ last.status = "returned"
          /\ TitlesOf(Item(last.body.document, "sections").arr) =
                <<"Service Overview", "Architecture Analysis",
                  "Resilience Testing Strategy", "Availability Design",
                  "Observability Strategy", "Identified Risks & Mitigations",
                  "Recommendations & Next Steps">>

(***************************************************************************)
(* Properties of the reply handling (specification SpecReply)              *)
(***************************************************************************)
JsonTextBound ==
    last.op = "analyze_system_architecture" /\ last.status \in {"extracted", "returned"}

\* a fence labelled json at i, and a fence at k after it
LooseBlock(t, i, k) ==
    /\ i \in DOMAIN t /\ k \in DOMAIN t /\ i < k
    /\ t[i] = FENCE_JSON
    /\ StartsFence(t[k])

\* what stands between the fences, the line ends next to them aside
LooseContent(t, i, k) ==
    LET inner == SubSeq(t, i + 1, k - 1)
        headless == IF inner # <<>> /\ Head(inner) = NL THEN Tail(inner) ELSE inner
    IN  IF headless # <<>> /\ headless[Len(headless)] = NL
        THEN SubSeq(headless, 1, Len(headless) - 1)
        ELSE headless

\* C8 as claimed: when the reply holds a fence labelled json and a fence after
\* it, json.loads is handed the content between the first such pair of
\* fences; otherwise it is handed the whole reply.
C8_AnyFencedBlockPreferred ==
    JsonTextBound =>
        IF \E i, k \in DOMAIN analysis_text : LooseBlock(analysis_text, i, k)
        THEN \E i, k \in DOMAIN analysis_text :
               /\ LooseBlock(analysis_text, i, k)
               /\ \A i2, k2 \in DOMAIN analysis_text :
                     LooseBlock(analysis_text, i2, k2) =>
                        i <= i2 /\ (i2 = i => k <= k2)
               /\ json_text = LooseContent(analysis_text, i, k)
        ELSE json_text = analysis_text

\* a fence labelled json at i with a newline right after it, and at k, past
\* that newline, a newline with a fence right after it
LineBlock(t, i, k) ==
    /\ i \in DOMAIN t /\ k \in DOMAIN t
    /\ i + 1 \in DOMAIN t /\ k + 1 \in DOMAIN t
    /\ t[i] = FENCE_JSON /\ t[i + 1] = NL
    /\ k >= i + 2
    /\ t[k] = NL /\ StartsFence(t[k + 1])

\* C8 (amended): when the reply holds a fence labelled json that a newline
\* follows at once and, past that newline, a newline that a fence follows at
\* once, json.loads is handed exactly the text between the first such opening
\* newline and the first such closing newline after it, also when the reply
\* starts with "{" and ends with "}"; otherwise it is handed the whole reply.
C8_FencedBlockPreferred ==
    JsonTextBound =>
        IF \E i, k \in DOMAIN analysis_text : LineBlock(analysis_text, i, k)
        THEN \E i, k \in DOMAIN analysis_text :
               /\ LineBlock(analysis_text, i, k)
               /\ \A i2, k2 \in DOMAIN analysis_text :
                     LineBlock(analysis_text, i2, k2) =>
                        i <= i2 /\ (i2 = i => k <= k2)
               /\ json_text = SubSeq(analysis_text, i + 2, k - 1)
        ELSE json_text = analysis_text

\* C8 witness: a reply that starts with "{", ends with "}" and holds a block
\* in between had the content of the block handed to json.loads.
C8_Witness ==
    /\ JsonTextBound
    /\ analysis_text # <<>>
    /\ analysis_text[1] = "{" /\ analysis_text[Len(analysis_text)] = "}"
    /\ \E i, k \in DOMAIN analysis_text : LineBlock(analysis_text, i, k)
    /\ json_text = <<"{", "}">>

\* analyze_system_architecture returned after json.loads raised JSONDecodeError
ParseFailed ==
    /\ last.op = "analyze_system_architecture" /\ last.status = "returned"
    /\ json_loads(json_text).exc = "JSONDecodeError"

\* positions of the heading in t
Headings(t) == {p \in DOMAIN t : t[p] = "Components"}
FirstHeading(t) == CHOOSE p \in Headings(t) : \A q \in Headings(t) : p <= q

\* the text after the first heading
AfterHeading(t) == SubSeq(t, FirstHeading(t) + 1, Len(t))

\* the text after the first heading, up to the next heading when there is one
UpToNextHeading(t) ==
    LET rest == AfterHeading(t) IN
    IF Headings(rest) = {} THEN rest
    ELSE SubSeq(rest, 1, FirstHeading(rest) - 1)

\* s[a..b] is a line of s, one of its first ten
AmongFirstTenLines(s, a, b) ==
    /\ a \in 1..(Len(s) + 1) /\ b \in (a - 1)..Len(s)
    /\ a = 1 \/ s[a - 1] = NL
    /\ b = Len(s) \/ s[b + 1] = NL
    /\ \A j \in a..b : s[j] # NL
    /\ Cardinality({j \in 1..(a - 1) : s[j] = NL}) < 10

\* component c is made of a line "name: description" among the first ten
\* lines of s, name and description non-empty once stripped
FromNameDescriptionLine(c, s) ==
    \E a \in 1..(Len(s) + 1), b \in 0..Len(s), colon \in 1..Len(s) :
        /\ AmongFirstTenLines(s, a, b)
        /\ colon \in a..b /\ s[colon] = ":"
        /\ \A j \in a..(colon - 1) : s[j] # ":"
        /\ join(strip(SubSeq(s, a, colon - 1))) # ""
        /\ join(strip(SubSeq(s, colon + 1, b))) # ""
        /\ Item(c, "name").s = join(strip(SubSeq(s, a, colon - 1)))
        /\ Item(c, "description").s = join(strip(SubSeq(s, colon + 1, b)))

\* the record has tier2 and empty lists beside its components
MinimalAnalysis(r) ==
    /\ r.t = "dict"
    /\ Item(r, "availabilityTier") = Str("tier2")
    /\ \A key \in {"dependencies", "criticalPaths", "singlePointsOfFailure",
                    "recommendations"} : Item(r, key) = List(<<>>)
    /\ Item(r, "components").t = "list"
    /\ Len(Item(r, "components").arr) <= 10
    /\ Headings(analysis_text) = {} => Item(r, "components").arr = <<>>

\* C9 as claimed: when json.loads fails the analyzer returns a record with
\* tier2, empty dependencies, criticalPaths, singlePointsOfFailure and
\* recommendations, and at most ten components, each made of a
\* "name: description" line among the first ten lines of the reply's text
\* after the first "Components"; none when the heading is absent.
C9_ComponentsFromTextAfterHeading ==
    ParseFailed =>
        /\ MinimalAnalysis(structured)
        /\ \A n \in DOMAIN Item(structured, "components").arr :
              FromNameDescriptionLine(Item(structured, "components").arr[n],
                                      AfterHeading(analysis_text))

\* C9 (amended): as claimed, but the lines are the first ten of the reply's
\* text between the first "Components" and the next "Components" (the end of
\* the reply when there is no next one).
C9_ComponentsFromHeadingSection ==
    ParseFailed =>
        /\ MinimalAnalysis(structured)
        /\ \A n \in DOMAIN Item(structured, "components").arr :
              FromNameDescriptionLine(Item(structured, "components").arr[n],
                                      UpToNextHeading(analysis_text))

\* C9 witness: json.loads failed on the content of a fenced block and the
\* extractor found a component in the reply.
C9_Witness ==
    /\ ParseFailed
    /\ json_text # analysis_text
    /\ Item(structured, "components").arr # <<>>

\* C10: whenever the model reply parses as JSON, analyze-system returns
\* {analysisId, result} with the parsed value as result and stores it under
\* analysisId, whatever the shape of the value.
C10_ParsedJsonReturnedAsIs ==
    (AnalyzedKnownFile /\ last.status # "blocked" /\ last.outcome.kind = "reply"
       /\ json_loads(extract_json_text(last.outcome.text)).exc = "") =>
        /\ last.status = "returned"
        /\ last.body.result = json_loads(extract_json_text(last.outcome.text)).val
        /\ analysis_results[last.body.analysisId].data = last.body.result

\* C11: analyze-destructive-tests on any stored record (whatever its payload
\* or kind) with valid metadata returns {analysisId, result} with the fixed
\* ChaosTestingPlan as result; the stage does not fail.
C11_ChaosStageCannotFail ==
    (/\ last.op = "analyze_destructive_tests"
     /\ last.req.system_analysis_id \in DOMAIN analysis_results
     /\ parse_metadata(last.req.metadata_json).exc = "") =>
        /\ last.status = "returned"
        /\ "analysisId" \in DOMAIN last.body
        /\ last.body.result = _create_mock_chaos_testing_plan

\* C20: the system_analysis_id of every PRR record names a stored record of
\* kind system_analysis and its destructive_testing_id a stored record of
\* kind destructive_testing, so the two differ.
C20_PrrDerivedFromRightKinds ==
    \A d \in DOMAIN prr_documents :
        /\ prr_documents[d].system_analysis_id \in DOMAIN analysis_results
        /\ prr_documents[d].destructive_testing_id \in DOMAIN analysis_results
        /\ analysis_results[prr_documents[d].system_analysis_id].type
              = "system_analysis"
        /\ analysis_results[prr_documents[d].destructive_testing_id].type
              = "destructive_testing"
        /\ prr_documents[d].system_analysis_id
              # prr_documents[d].destructive_testing_id

\* the last request was a stage that answered {newId, result}
StageSucceeded(r) ==
    /\ r.op \in {"analyze_system", "analyze_destructive_tests", "generate_prr"}
    /\ r.status = "returned"
    /\ "error" \notin DOMAIN r.body

\* after is before with exactly one more key, id, and the old records as
\* they were
InsertedUnder(before, after, id) ==
    /\ id \notin DOMAIN before
    /\ DOMAIN after = DOMAIN before \cup {id}
    /\ \A k \in DOMAIN before : after[k] = before[k]

\* C14: each successful analyze-system, analyze-destructive-tests and
\* generate-prr call inserts exactly one record, under an identifier that was
\* no key of the target store, and returns that identifier with the payload
\* stored under it, mock data or not.
C14_StageInsertsWhatItReturns ==
    [][StageSucceeded(last') =>
         IF last'.op = "generate_prr"
         THEN /\ InsertedUnder(prr_documents, prr_documents', last'.body.documentId)
              /\ prr_documents'[last'.body.documentId].document = last'.body.document
         ELSE /\ InsertedUnder(analysis_results, analysis_results',
                                last'.body.analysisId)
              /\ analysis_results'[last'.body.analysisId].data = last'.body.result]_vars

\* C14 witness: analyze-system answered with the analysis a model reply was
\* parsed into, and the analysis store holds it under the returned id.
C14_Witness ==
    /\ StageSucceeded(last)
    /\ last.op = "analyze_system"
    /\ last.outcome.kind = "reply"
    /\ last.body.result # _create_mock_system_analysis
    /\ analysis_results[last.body.analysisId].data = last.body.result

\* every key of before is a key of after, with the record it had
Kept(before, after) ==
    \A k \in DOMAIN before : k \in DOMAIN after /\ after[k] = before[k]

\* C15: no request removes or overwrites a store entry: every key of the
\* upload store, the analysis store and the PRR document store stays a key
\* and keeps its record.
C15_StoresOnlyGrow ==
    [][/\ Kept(processing_files, processing_files')
       /\ Kept(analysis_results, analysis_results')
       /\ Kept(prr_documents, prr_documents')]_vars

\* C15 witness: two files were uploaded, the first is still stored.
C15_Witness ==
    /\ Cardinality(DOMAIN processing_files) >= 2
    /\ Cardinality(DOMAIN analysis_results) >= 1

\* C16: upload-diagram returns {fileId, filename} for any content, inserts
\* exactly one file record holding the received bytes under a fileId that was
\* no key of the upload store, and leaves the other two stores unchanged.
C16_UploadInsertsOneFile ==
    [][last'.op = "upload_diagram" =>
         /\ last'.status = "returned"
         /\ DOMAIN last'.body = {"fileId", "filename"}
         /\ last'.body.filename = last'.req.filename
         /\ InsertedUnder(processing_files, processing_files', last'.body.fileId)
         /\ processing_files'[last'.body.fileId].content = last'.req.content
         /\ analysis_results' = analysis_results
         /\ prr_documents' = prr_documents]_vars

\* C16 witness: a file of zero bytes was uploaded next to an earlier file and
\* is stored.
C16_Witness ==
    /\ last.op = "upload_diagram"
    /\ last.req.content = ""
    /\ processing_files[last.body.fileId].content = ""
    /\ Cardinality(DOMAIN processing_files) >= 2

\* C17: from its identifier check to the return of the model call an
\* analyze-system request changes no store; when the call has returned it
\* inserts at most one record, into the analysis store under a fresh key, and
\* changes no other record.
C17_NoWriteWhileWaiting ==
    [][/\ call' # NoCall => stores' = stores
       /\ (call # NoCall /\ call' = NoCall) =>
             /\ processing_files' = processing_files
             /\ prr_documents' = prr_documents
             /\ \/ analysis_results' = analysis_results /\ last'.status = "raised"
                \/ /\ last'.status = "returned"
                   /\ InsertedUnder(analysis_results, analysis_results',
                                    last'.body.analysisId)]_vars

\* C17 witness: a second analyze-system request went through the model call
\* and its record stands next to the first one.
C17_Witness ==
    /\ last.op = "analyze_system"
    /\ StageSucceeded(last)
    /\ last.model_calls = 1
    /\ Cardinality(DOMAIN analysis_results) >= 2

\* a request that makes no model call of its own can run to completion now
OtherRequestsCanRun ==
    /\ ENABLED ping
    /\ ENABLED check_env
    /\ ENABLED (\E id \in DocumentIds, f \in FormatParams : download_prr(id, f))
    /\ ENABLED (\E id \in AnalysisIds, mj \in MetadataJsonTexts :
                   analyze_destructive_tests(id, mj))

\* C18: while an analyze-system request waits for the model's reply, other
\* requests (ping, check-env, download-prr, another stage) can be started and
\* run to completion.
C18_OnlyTheCallerIsSuspended ==
    call # NoCall => OtherRequestsCanRun

\* C19: a request waits for the model only if it is analyze-system on a
\* stored file of non-empty content, and it has not answered while it
\* waits; analyze-system on empty content or an
\* unknown fileId ends without a model call; and whether or not a model call
\* of the pipeline is pending, every other endpoint answers.
C19_OnlyAnalysisWaitsForTheModel ==
    /\ call # NoCall =>
          /\ last.op = "analyze_system" /\ last.status = "blocked"
          /\ last.req.fileId \in DOMAIN processing_files
          /\ last.content # ""
          /\ "body" \notin DOMAIN last
    /\ (/\ last.op = "analyze_system"
        /\ \/ last.req.fileId \notin DOMAIN processing_files
           \/ last.content = "") =>
          /\ last.status # "blocked"
          /\ "model_calls" \in DOMAIN last => last.model_calls = 0
    /\ ENABLED ping /\ ENABLED check_env
    /\ ENABLED (\E id \in DocumentIds, f \in FormatParams : download_prr(id, f))

(***************************************************************************)
(* Properties of the generators (specification SpecGenerate)               *)
(***************************************************************************)
PrrCalls == {i \in DOMAIN returns : returns[i].fn = "generate_prr_document"}

\* C12: two generate_prr_document calls that read the same date and are
\* given the same metadata.name and metadata.businessImpact return the same
\* document, whatever analysis, plan and description they are given; every
\* document is titled "<name> - Production Readiness Review", has version
\* "1.0" and the seven fixed section titles in order.
C12_PrrDependsOnNameImpactDate ==
    /\ \A i, j \in PrrCalls :
          (/\ returns[i].args[3].name = returns[j].args[3].name
           /\ returns[i].args[3].businessImpact = returns[j].args[3].businessImpact
           /\ returns[i].clock = returns[j].clock)
             => returns[i].result = returns[j].result
    /\ \A i \in PrrCalls :
          /\ returns[i].result.exc = ""
          /\ Item(returns[i].result.val, "title").s =
                returns[i].args[3].name \o " - Production Readiness Review"
          /\ Item(returns[i].result.val, "version").s = "1.0"
          /\ TitlesOf(Item(returns[i].result.val, "sections").arr) =
                <<"Service Overview", "Architecture Analysis",
                  "Resilience Testing Strategy", "Availability Design",
                  "Observability Strategy", "Identified Risks & Mitigations",
                  "Recommendations & Next Steps">>

\* C12 witness: two calls on the same day that differ in analysis, plan and
\* description, with the same name and businessImpact, returned one document.
C12_Witness ==
    \E i, j \in PrrCalls :
        /\ returns[i].args[1] # returns[j].args[1]
        /\ returns[i].args[2] # returns[j].args[2]
        /\ returns[i].args[3].description # returns[j].args[3].description
        /\ returns[i].args[3].name = returns[j].args[3].name
        /\ returns[i].clock = returns[j].clock
        /\ returns[i].result = returns[j].result

C21_ReferentialIntegrity ==
    /\ \A a \in DOMAIN analysis_results :
          analysis_results[a].type = "destructive_testing" =>
             analysis_results[a].system_analysis_id \in DOMAIN analysis_results
    /\ \A d \in DOMAIN prr_documents :
          /\ prr_documents[d].system_analysis_id \in DOMAIN analysis_results
          /\ prr_documents[d].destructive_testing_id \in DOMAIN analysis_results
    /\ (\E a \in DOMAIN analysis_results :
            analysis_results[a].type = "system_analysis")
          => DOMAIN processing_files # {}

\* C21 witness: the stores hold an upload, a system analysis, and a PRR record
\* that refers to it.
C21_Witness ==
    /\ DOMAIN processing_files # {}
    /\ \E d \in DOMAIN prr_documents :
          /\ prr_documents[d].system_analysis_id \in DOMAIN analysis_results
          /\ analysis_results[prr_documents[d].system_analysis_id].type
                = "system_analysis"

\* C22: a request answered with an {error} payload changes no store; ping,
\* check-env and download-prr change no store; analyze-system and
\* analyze-destructive-tests change at most the analysis store, and
\* generate-prr at most the PRR document store.
C22_FrameConditions ==
    [][/\ IsError(last') => stores' = stores
       /\ last'.op \in {"ping", "check_env", "download_prr"} => stores' = stores
       /\ last'.op \in {"analyze_system", "analyze_destructive_tests"} =>
             /\ processing_files' = processing_files
             /\ prr_documents' = prr_documents
       /\ last'.op = "generate_prr" =>
             /\ processing_files' = processing_files
             /\ analysis_results' = analysis_results]_vars

\* C22 witness: with records in all three stores, generate-prr was answered
\* with an {error} payload for an unknown destructive_testing_id.
C22_Witness ==
    /\ last.op = "generate_prr"
    /\ IsError(last)
    /\ DOMAIN processing_files # {}
    /\ DOMAIN analysis_results # {}
    /\ DOMAIN prr_documents # {}

====
